---- MODULE Spec2Model ----
(***************************************************************************)
(* Building decision pipeline of lidar_prod: BuildingValidator (prepare,   *)
(* update, cluster decision) and BuildingCompletor, the threshold          *)
(* optimiser (objective, selection of rules, ground truth and metrics),    *)
(* the orchestrator of the application, the request to the vector          *)
(* database, and the utilities split_idx_by_dim and Cleaner.               *)
(*                                                                         *)
(* A tile is a sequence of points; a point is a record of its dimensions.  *)
(* Probabilities, entropies, thresholds and fractions are floats in [0,1]  *)
(* in the program; here a number v stands for v / Unit, and every          *)
(* comparison of the program is cross-multiplied so that it stays exact.   *)
(* Positions are one-dimensional integers: two points are neighbours for a *)
(* clustering of tolerance t when their positions differ by at most t.     *)
(*                                                                         *)
(* Each part of the program has its own variables and its own              *)
(* specification; the variables of the other parts stay idle in it.        *)
(***************************************************************************)
EXTENDS Integers, Sequences, FiniteSets, TLC

\* the tile pipeline and the cluster decision
VARIABLES las, dims, shp, thresholds, use_final_classification_codes,
          op, n, prev, infos, decision

\* BuildingValidationOptimizer: the study, its trial count, the selected
\* rules, and the metrics that the last trial got from _evaluate_decisions
VARIABLES study, n_trials, best_rules, metrics_dict

\* the orchestrator (apply and apply_building_module)
VARIABLES src_las, tile, pc, steps, temp_dirs, written, applied_file_list,
          shp_path

\* request_bd_uni_for_building_shapefile
VARIABLES bd_uni, bbox, epsg, fault, queries, shapefile, outcome

\* split_idx_by_dim
VARIABLES dim_values, group_idx

\* Cleaner
VARIABLES extra_dims, extra_dimension_names, names_before, cleaned

\* the evaluation of the optimiser: the labels of the members of a cluster,
\* the label fractions and the ground-truth flag derived from them; the
\* ground truths and the decisions of the clusters and their metrics
VARIABLES cluster_labels, min_frac, ground_truth_flag,
          mts_gt, ia_decision, evaluated

pipeline_vars == <<las, dims, shp, thresholds, use_final_classification_codes,
                   op, n, prev, infos, decision>>

optimizer_vars == <<study, n_trials, best_rules, metrics_dict>>

application_vars == <<src_las, tile, pc, steps, temp_dirs, written,
                      applied_file_list, shp_path>>

request_vars == <<bd_uni, bbox, epsg, fault, queries, shapefile, outcome>>

split_vars == <<dim_values, group_idx>>

cleaner_vars == <<extra_dims, extra_dimension_names, names_before, cleaned>>

evaluation_vars == <<cluster_labels, min_frac, ground_truth_flag,
                     mts_gt, ia_decision, evaluated>>

vars == <<pipeline_vars, optimizer_vars, application_vars, request_vars,
          split_vars, cleaner_vars, evaluation_vars>>

\* the parts of the program at rest
PipelineIdle ==
    /\ las = <<>> /\ dims = {} /\ shp = {} /\ thresholds = <<>>
    /\ use_final_classification_codes = FALSE /\ op = "idle" /\ n = 0
    /\ prev = <<>> /\ infos = <<>> /\ decision = <<>>

OptimizerIdle ==
    /\ study = <<>> /\ n_trials = 0 /\ best_rules = <<>> /\ metrics_dict = <<>>

ApplicationIdle ==
    /\ src_las = <<>> /\ tile = 0 /\ pc = "idle" /\ steps = <<>>
    /\ temp_dirs = {} /\ written = {} /\ applied_file_list = <<>>
    /\ shp_path = FALSE

\* request_bd_uni_for_building_shapefile has neither returned nor raised
NoOutcome == [kind |-> "none", value |-> "none"]

RequestIdle ==
    /\ bd_uni = <<>> /\ bbox = {} /\ epsg = <<>> /\ fault = "none"
    /\ queries = <<>> /\ shapefile = "none" /\ outcome = NoOutcome

SplitIdle == dim_values = <<>> /\ group_idx = <<>>

CleanerIdle ==
    /\ extra_dims = <<>> /\ extra_dimension_names = <<>>
    /\ names_before = <<>> /\ cleaned = FALSE

EvaluationIdle ==
    /\ cluster_labels = <<>> /\ min_frac = <<>> /\ ground_truth_flag = 0
    /\ mts_gt = <<>> /\ ia_decision = <<>> /\ evaluated = <<>>

---------------------------------------------------------------------------
(* Bounds of the model *)

\* number of points of a tile
NumPoints == 3
\* how many times in a row prepare (or update) is applied to the same tile
MaxRepeat == 2
\* largest cluster handed to the decision function on its own
MaxClusterSize == 2

---------------------------------------------------------------------------
(* Configuration: values that the program reads from its configuration *)

\* v stands for the float v / Unit
Unit == 4

\* data_format.codes.building: the seven detailed codes, the three final
\* codes and the list of (detailed, final) pairs
codes ==
    [detailed |->
        [ia_refuted |-> 110, ia_refuted_but_under_db_uni |-> 111,
         both_unsure |-> 112, unsure_by_entropy |-> 113,
         ia_confirmed_only |-> 114, db_overlayed_only |-> 115,
         both_confirmed |-> 116],
     final |-> [unsure |-> 214, not_building |-> 208, building |-> 6],
     detailed_to_final |->
        << <<110, 208>>, <<111, 208>>, <<112, 214>>, <<113, 214>>,
           <<114, 6>>, <<115, 214>>, <<116, 6>> >>]

\* data_format.codes.building.candidates
candidate_buildings_codes == {202}

\* a classification code of the input that is no candidate code (ground)
OtherCode == 2

\* building_validation cluster parameters (min_points, tolerance)
bv_cluster == [min_points |-> 2, tolerance |-> 0]

\* building_completion cluster parameters: relaxed tolerance
bc_cluster == [min_points |-> 2, tolerance |-> 1]

\* BuildingCompletor.__init__ defaults: 0.75 and 1.0
min_building_proba == 3
min_building_proba_relaxation_if_bd_uni_overlay == 4

\* thresholds of the tile runs: confirmation at 0.75 relaxed by 0.5 under
\* the database, refutation at 0.75, both for 0.75 of the members; overlay
\* and entropy for 0.5 of the members
ApplicationThresholds ==
    [min_confidence_confirmation |-> 3,
     min_frac_confirmation |-> 3,
     min_frac_confirmation_factor_if_bd_uni_overlay |-> 2,
     min_uni_db_overlay_frac |-> 2,
     min_confidence_refutation |-> 3,
     min_frac_refutation |-> 3,
     min_entropy_uncertainty |-> 2,
     min_frac_entropy_uncertain |-> 2]

DetailedCodes ==
    {codes.detailed.ia_refuted, codes.detailed.ia_refuted_but_under_db_uni,
     codes.detailed.both_unsure, codes.detailed.unsure_by_entropy,
     codes.detailed.ia_confirmed_only, codes.detailed.db_overlayed_only,
     codes.detailed.both_confirmed}

FinalCodes ==
    {codes.final.unsure, codes.final.not_building, codes.final.building}

---------------------------------------------------------------------------
(* numpy helpers *)

Range(s) == {s[k] : k \in DOMAIN s}

RECURSIVE SeqSum(_)
SeqSum(s) == IF s = <<>> THEN 0 ELSE Head(s) + SeqSum(Tail(s))

\* MeanGeq with the comparison made strict
MeanGt(cnt, len, frac) == len > 0 /\ cnt * Unit > frac * len

\* np.mean(flags) >= frac, flags a 0/1 (or boolean) array given by the number
\* cnt of its ones and its length len; the mean of an empty array is nan and
\* every comparison with nan is False
MeanGeq(cnt, len, frac) == len > 0 /\ cnt * Unit >= frac * len

\* np.argsort(dim_array): the indices in ascending order of their value
\* (equal values in index order)
RECURSIVE ArgSortFrom(_, _)
ArgSortFrom(dim_array, rest) ==
    IF rest = {} THEN <<>>
    ELSE LET m == CHOOSE i \in rest : \A j \in rest :
                      \/ dim_array[i] < dim_array[j]
                      \/ (dim_array[i] = dim_array[j] /\ i <= j)
         IN <<m>> \o ArgSortFrom(dim_array, rest \ {m})

argsort(dim_array) == ArgSortFrom(dim_array, DOMAIN dim_array)

\* np.array_split(idx, cuts): idx cut before each position of cuts
\* (cuts holds the 1-based positions at which a new piece starts)
array_split(idx, cuts) ==
    LET starts == {1} \cup cuts
        nxt(s) == IF \E t \in starts : t > s
                  THEN (CHOOSE t \in starts : t > s /\ \A u \in starts : u > s => t <= u) - 1
                  ELSE Len(idx)
    IN [g \in 1..Cardinality(starts) |->
            LET s == CHOOSE s \in starts : Cardinality({t \in starts : t < s}) = g - 1
            IN SubSeq(idx, s, nxt(s))]

\* split_idx_by_dim after its argsort: idx is cut where the sorted values
\* change
split_sorted_idx(dim_array, idx) ==
    LET sorted_dim_array == [k \in DOMAIN idx |-> dim_array[idx[k]]]
        \* np.where(np.diff(sorted_dim_array) != 0)[0] + 1
        cuts == {k + 1 : k \in {j \in 1..(Len(idx) - 1) :
                                  sorted_dim_array[j + 1] - sorted_dim_array[j] # 0}}
    IN array_split(idx, cuts)

\* lidar_prod.tasks.utils.split_idx_by_dim
split_idx_by_dim(dim_array) == split_sorted_idx(dim_array, argsort(dim_array))

---------------------------------------------------------------------------
(* BuildingValidator: decision at the cluster level *)

\* self.detailed_to_final_map of BuildingValidator.setup: the dict built from
\* the list of pairs (a later pair overrides an earlier one with the same key)
detailed_to_final_map ==
    LET pairs == codes.detailed_to_final
        last(d) == CHOOSE k \in DOMAIN pairs :
                      /\ pairs[k][1] = d
                      /\ \A j \in DOMAIN pairs : pairs[j][1] = d => j <= k
    IN [d \in {pairs[k][1] : k \in DOMAIN pairs} |-> pairs[last(d)][2]]

\* BuildingValidator._make_detailed_group_decision
make_detailed_group_decision(ci, th) ==
    LET len == Len(ci.probabilities)
        members == 1..len
        high_entropy ==
            MeanGeq(Cardinality({k \in members :
                        ci.entropies[k] >= th.min_entropy_uncertainty}),
                    len, th.min_frac_entropy_uncertain)
        p_heq_threshold(k) ==
            ci.probabilities[k] >= th.min_confidence_confirmation
        \* relaxed_threshold = min_confidence_confirmation * factor
        p_heq_relaxed_threshold(k) ==
            ci.probabilities[k] * Unit >=
                th.min_confidence_confirmation
                    * th.min_frac_confirmation_factor_if_bd_uni_overlay
        ia_confirmed_flag(k) ==
            p_heq_threshold(k) \/ (ci.overlays[k] # 0 /\ p_heq_relaxed_threshold(k))
        ia_confirmed ==
            MeanGeq(Cardinality({k \in members : ia_confirmed_flag(k)}),
                    len, th.min_frac_confirmation)
        ia_refuted ==
            MeanGeq(Cardinality({k \in members :
                        Unit - ci.probabilities[k] >= th.min_confidence_refutation}),
                    len, th.min_frac_refutation)
        uni_overlayed ==
            MeanGeq(SeqSum(ci.overlays), len, th.min_uni_db_overlay_frac)
    IN IF high_entropy THEN codes.detailed.unsure_by_entropy
       ELSE IF ia_refuted
            THEN IF uni_overlayed
                 THEN codes.detailed.ia_refuted_but_under_db_uni
                 ELSE codes.detailed.ia_refuted
       ELSE IF ia_confirmed
            THEN IF uni_overlayed
                 THEN codes.detailed.both_confirmed
                 ELSE codes.detailed.ia_confirmed_only
       ELSE IF uni_overlayed THEN codes.detailed.db_overlayed_only
       ELSE codes.detailed.both_unsure

\* _make_group_decision without the lookup in detailed_to_final_map
make_group_decision_unmapped(ci, th) == make_detailed_group_decision(ci, th)

\* _make_group_decision trusting a target that says building
make_group_decision_by_target(ci, th) ==
    IF ci.target = <<codes.final.building>> THEN codes.final.building
    ELSE detailed_to_final_map[make_detailed_group_decision(ci, th)]

\* BuildingValidator._make_group_decision
make_group_decision(ci, th) ==
    detailed_to_final_map[make_detailed_group_decision(ci, th)]

\* BuildingValidator._extract_cluster_info_by_idx
extract_cluster_info_by_idx(pts, pts_idx) ==
    [probabilities |-> [k \in DOMAIN pts_idx |-> pts[pts_idx[k]].building],
     overlays      |-> [k \in DOMAIN pts_idx |-> pts[pts_idx[k]].uni_db_overlay],
     entropies     |-> [k \in DOMAIN pts_idx |-> pts[pts_idx[k]].entropy],
     target        |-> [k \in DOMAIN pts_idx |-> pts[pts_idx[k]].Classification]]

---------------------------------------------------------------------------
(* pdal primitives *)

\* pdal.Filter.cluster(min_points, tolerance, where): Euclidean clustering of
\* the points selected by `where` (sel, a set of indices). A cluster is a
\* maximal set of selected points chained by neighbours at distance <=
\* tolerance; clusters of fewer than min_points points are dropped; the kept
\* clusters are numbered from 1 in the order of their first point; ClusterID
\* is written for the clustered points only.
RECURSIVE Grow(_, _, _, _)
Grow(pts, sel, tolerance, comp) ==
    LET more == comp \cup {j \in sel : \E i \in comp :
                    /\ pts[i].x - pts[j].x <= tolerance
                    /\ pts[j].x - pts[i].x <= tolerance}
    IN IF more = comp THEN comp ELSE Grow(pts, sel, tolerance, more)

Min(S) == CHOOSE m \in S : \A j \in S : m <= j

FilterCluster(pts, sel, min_points, tolerance) ==
    LET clusters == {c \in {Grow(pts, sel, tolerance, {i}) : i \in sel} :
                        Cardinality(c) >= min_points}
        id(c) == Cardinality({d \in clusters : Min(d) <= Min(c)})
    IN [i \in DOMAIN pts |->
            IF \E c \in clusters : i \in c
            THEN [pts[i] EXCEPT !.ClusterID = id(CHOOSE c \in clusters : i \in c)]
            ELSE pts[i]]

\* pdal.Filter.overlay(column="PRESENCE", datasource, dimension): the
\* dimension is set to PRESENCE (always 1) for the points inside a polygon
\* of the layer and left as it is elsewhere. A polygon is the set of the
\* positions it covers.
FilterOverlay(pts, layer) ==
    [i \in DOMAIN pts |->
        IF \E polygon \in layer : pts[i].x \in polygon
        THEN [pts[i] EXCEPT !.uni_db_overlay = 1]
        ELSE pts[i]]

---------------------------------------------------------------------------
(* BuildingValidator.prepare and BuildingValidator.update on a tile *)

\* FlagCandidates assigning to Classification instead of the flag dimension
FlagCandidatesInClassification(pts) ==
    [i \in DOMAIN pts |->
        IF pts[i].Classification \in candidate_buildings_codes
        THEN [pts[i] EXCEPT !.Classification = 1]
        ELSE pts[i]]

\* BuildingValidator.prepare, first step: ferry "=>candidate_flag", then
\* assign candidate_flag = 1 WHERE Classification is a candidate code. A
\* ferry "=>dim" creates the dimension, filled with 0, when the tile does not
\* have it and leaves it alone otherwise; a dimension that the tile does not
\* have yet reads 0 in the point records.
FlagCandidates(pts) ==
    [i \in DOMAIN pts |->
        IF pts[i].Classification \in candidate_buildings_codes
        THEN [pts[i] EXCEPT !.candidate_buildings_flag = 1]
        ELSE pts[i]]

\* ClusterCandidates without the `where` of the cluster filter
ClusterAllPoints(pts) ==
    LET clustered == FilterCluster(pts, DOMAIN pts,
                        bv_cluster.min_points, bv_cluster.tolerance)
    IN [i \in DOMAIN pts |->
            [clustered[i] EXCEPT
                !.ClusterID_candidate_building = clustered[i].ClusterID,
                !.ClusterID = 0]]

\* BuildingValidator.prepare, second step: cluster the flagged points, ferry
\* ClusterID => ClusterID_candidate_building, assign ClusterID = 0
ClusterCandidates(pts) ==
    LET clustered == FilterCluster(pts,
                        {i \in DOMAIN pts : pts[i].candidate_buildings_flag = 1},
                        bv_cluster.min_points, bv_cluster.tolerance)
    IN [i \in DOMAIN pts |->
            [clustered[i] EXCEPT
                !.ClusterID_candidate_building = clustered[i].ClusterID,
                !.ClusterID = 0]]

\* OverlayStep adding PRESENCE to the dimension instead of setting it
OverlayStepAccumulating(pts, layer) ==
    [i \in DOMAIN pts |->
        IF \E polygon \in layer : pts[i].x \in polygon
        THEN [pts[i] EXCEPT !.uni_db_overlay = @ + 1]
        ELSE pts[i]]

\* OverlayStep with the overlay dimension ferried from the candidate flag
OverlayStepFromFlag(pts, layer) ==
    LET ferried == [i \in DOMAIN pts |->
                       [pts[i] EXCEPT !.uni_db_overlay = pts[i].candidate_buildings_flag]]
    IN IF layer # {} THEN FilterOverlay(ferried, layer) ELSE ferried

\* BuildingValidator.prepare, third step: ferry "=>uni_db_overlay", read or
\* request the vector layer, and overlay it when it holds a building
OverlayStep(pts, layer) ==
    LET buildings_in_bd_topo == layer # {}
    IN IF buildings_in_bd_topo THEN FilterOverlay(pts, layer) ELSE pts

\* BuildingValidator.prepare
prepare(pts, layer) == OverlayStep(ClusterCandidates(FlagCandidates(pts)), layer)

PreparedDims ==
    {"candidate_buildings_flag", "ClusterID", "ClusterID_candidate_building",
     "uni_db_overlay"}

\* UpdateGroups writing the detailed code whatever the configuration
RECURSIVE UpdateGroupsDetailed(_, _, _, _)
UpdateGroupsDetailed(pts, split_idx, th, final) ==
    IF split_idx = <<>> THEN pts
    ELSE LET pts_idx == Head(split_idx)
             ci == extract_cluster_info_by_idx(pts, pts_idx)
             code == make_detailed_group_decision(ci, th)
         IN UpdateGroupsDetailed(
                [i \in DOMAIN pts |->
                    IF i \in Range(pts_idx)
                    THEN [pts[i] EXCEPT !.Classification = code] ELSE pts[i]],
                Tail(split_idx), th, final)

\* the loop of BuildingValidator.update over the groups of split_idx
RECURSIVE UpdateGroups(_, _, _, _)
UpdateGroups(pts, split_idx, th, final) ==
    IF split_idx = <<>> THEN pts
    ELSE LET pts_idx == Head(split_idx)
             ci == extract_cluster_info_by_idx(pts, pts_idx)
             code == IF final THEN make_group_decision(ci, th)
                     ELSE make_detailed_group_decision(ci, th)
         IN UpdateGroups(
                [i \in DOMAIN pts |->
                    IF i \in Range(pts_idx)
                    THEN [pts[i] EXCEPT !.Classification = code] ELSE pts[i]],
                Tail(split_idx), th, final)

\* PresetCandidates without the candidates mask
PresetAllPoints(pts) ==
    [i \in DOMAIN pts |->
        [pts[i] EXCEPT !.Classification = codes.final.not_building]]

\* las[dim_clf][candidates_mask] = self.codes.final.not_building
PresetCandidates(pts) ==
    [i \in DOMAIN pts |->
        IF pts[i].candidate_buildings_flag = 1
        THEN [pts[i] EXCEPT !.Classification = codes.final.not_building]
        ELSE pts[i]]

\* CandidateGroups splitting on the classification dimension
CandidateGroupsByClassification(pts) ==
    Tail(split_idx_by_dim([i \in DOMAIN pts |-> pts[i].Classification]))

\* CandidateGroups keeping the first group of split_idx_by_dim
CandidateGroupsWithNoise(pts) ==
    split_idx_by_dim([i \in DOMAIN pts |-> pts[i].ClusterID_candidate_building])

\* split_idx_by_dim(cluster_id_dim)[1:] in BuildingValidator.update
CandidateGroups(pts) ==
    Tail(split_idx_by_dim([i \in DOMAIN pts |-> pts[i].ClusterID_candidate_building]))

\* update_error without any failure
update_error_none(src_las_path, pipeline_held, ds) == "none"

\* the exception that BuildingValidator.update raises before it writes
\* anything, "none" without one: without a source path it reads
\* self.pipeline.arrays, and self.pipeline is None until prepare; then it
\* reads the candidate flag and the cluster id of the array, which has no
\* such field unless the tile has the dimension
update_error(src_las_path, pipeline_held, ds) ==
    IF ~src_las_path /\ ~pipeline_held THEN "AttributeError"
    ELSE IF "candidate_buildings_flag" \notin ds THEN "ValueError"
    ELSE IF "ClusterID_candidate_building" \notin ds THEN "ValueError"
    ELSE "none"

\* BuildingValidator.update
update(pts, th, final) ==
    LET preset == PresetCandidates(pts)
    IN UpdateGroups(preset, CandidateGroups(preset), th, final)

---------------------------------------------------------------------------
(* BuildingCompletor *)

\* CompletionWhere without where_not_clustered
CompletionWhereClustered(pts) ==
    {i \in DOMAIN pts :
        \/ /\ pts[i].candidate_buildings_flag = 1
           /\ \/ pts[i].building >= min_building_proba
              \/ /\ pts[i].building * Unit >=
                        min_building_proba
                            * min_building_proba_relaxation_if_bd_uni_overlay
                 /\ pts[i].uni_db_overlay > 0
        \/ pts[i].Classification = codes.final.building}

\* CompletionWhere without the two tests of the probability
CompletionWhereAnyProba(pts) ==
    {i \in DOMAIN pts :
        \/ /\ pts[i].candidate_buildings_flag = 1
           /\ pts[i].ClusterID_candidate_building = 0
        \/ pts[i].Classification = codes.final.building}

\* the `where` of BuildingCompletor.prepare_for_building_completion
CompletionWhere(pts) ==
    {i \in DOMAIN pts :
        \/ /\ pts[i].candidate_buildings_flag = 1
           /\ pts[i].ClusterID_candidate_building = 0
           /\ \/ pts[i].building >= min_building_proba
              \/ /\ pts[i].building * Unit >=
                        min_building_proba
                            * min_building_proba_relaxation_if_bd_uni_overlay
                 /\ pts[i].uni_db_overlay > 0
        \/ pts[i].Classification = codes.final.building}

\* BuildingCompletor.prepare_for_building_completion
prepare_for_building_completion(pts) ==
    LET clustered == FilterCluster(pts, CompletionWhere(pts),
                        bc_cluster.min_points, bc_cluster.tolerance)
    IN [i \in DOMAIN pts |->
            [clustered[i] EXCEPT
                !.ClusterID_isolated_plus_confirmed = clustered[i].ClusterID,
                !.ClusterID = 0]]

\* split_idx_by_dim(las[_cid])[1:] in BuildingCompletor.update_classification
CompletionGroups(pts) ==
    Tail(split_idx_by_dim(
            [i \in DOMAIN pts |-> pts[i].ClusterID_isolated_plus_confirmed]))

\* CompleteGroups writing the final not_building code
RECURSIVE CompleteGroupsWrongCode(_, _)
CompleteGroupsWrongCode(pts, split_idx) ==
    IF split_idx = <<>> THEN pts
    ELSE LET pts_idx == Head(split_idx)
         IN CompleteGroupsWrongCode(
                IF \E i \in Range(pts_idx) :
                        pts[i].Classification = codes.final.building
                THEN [i \in DOMAIN pts |->
                        IF i \in Range(pts_idx)
                        THEN [pts[i] EXCEPT !.Classification = codes.final.not_building]
                        ELSE pts[i]]
                ELSE pts,
                Tail(split_idx))

\* the loop of BuildingCompletor.update_classification
RECURSIVE CompleteGroups(_, _)
CompleteGroups(pts, split_idx) ==
    IF split_idx = <<>> THEN pts
    ELSE LET pts_idx == Head(split_idx)
         IN CompleteGroups(
                IF \E i \in Range(pts_idx) :
                        pts[i].Classification = codes.final.building
                THEN [i \in DOMAIN pts |->
                        IF i \in Range(pts_idx)
                        THEN [pts[i] EXCEPT !.Classification = codes.final.building]
                        ELSE pts[i]]
                ELSE pts,
                Tail(split_idx))

\* BuildingCompletor.update_classification
update_classification(pts) == CompleteGroups(pts, CompletionGroups(pts))

\* completor_run with its two steps exchanged
completor_run_update_first(pts) ==
    prepare_for_building_completion(update_classification(pts))

\* BuildingCompletor.run
completor_run(pts) == update_classification(prepare_for_building_completion(pts))

---------------------------------------------------------------------------
(* The tiles and the vector layers of the model *)

ProbaLevels == {0, 2, 4}
EntropyLevels == {0, 4}
Positions == {0, 1}

\* a point of an input tile: none of the derived dimensions exists yet
InputPoint(c, p, e, pos) ==
    [Classification |-> c, building |-> p, entropy |-> e, x |-> pos,
     candidate_buildings_flag |-> 0, ClusterID |-> 0,
     ClusterID_candidate_building |-> 0, uni_db_overlay |-> 0,
     ClusterID_isolated_plus_confirmed |-> 0]

\* Candidate points with any probability and position (a high entropy is
\* drawn with the high probability and at position 0 only). Probability,
\* entropy and position are read for candidate points and for final-building
\* points only, hence one point stands for every other non-candidate point.
InputPoints ==
    {InputPoint(c, p, e, pos) :
        c \in candidate_buildings_codes, p \in ProbaLevels,
        e \in {0}, pos \in Positions}
    \cup {InputPoint(c, 4, 4, 0) : c \in candidate_buildings_codes}
    \cup {InputPoint(codes.final.building, 0, 0, pos) : pos \in Positions}
    \cup {InputPoint(OtherCode, 0, 0, 0)}

\* vector layers: no polygon at all, or one polygon over position 0
Layers == {{}, {{0}}}

NoInfos == [probabilities |-> <<>>, overlays |-> <<>>, entropies |-> <<>>,
            target |-> <<>>]

NoDecision == [detailed |-> 0, final |-> 0]

---------------------------------------------------------------------------
(* Specification of the tile pipeline *)

Init ==
    /\ las \in [1..NumPoints -> InputPoints]
    /\ dims = {}
    /\ shp \in Layers
    /\ thresholds = ApplicationThresholds
    /\ use_final_classification_codes \in BOOLEAN
    /\ op = "init"
    /\ n = 0
    /\ prev = las
    /\ infos = NoInfos
    /\ decision = NoDecision
    /\ OptimizerIdle /\ ApplicationIdle /\ RequestIdle /\ SplitIdle /\ CleanerIdle
    /\ EvaluationIdle

\* BuildingValidator.prepare on the tile (again on its own result, up to
\* MaxRepeat times)
Prepare ==
    /\ op \in {"init", "prepare"}
    /\ op = "prepare" => n < MaxRepeat
    /\ las' = prepare(las, shp)
    /\ dims' = dims \cup PreparedDims
    /\ prev' = las
    /\ op' = "prepare"
    /\ n' = IF op = "prepare" THEN n + 1 ELSE 1
    /\ UNCHANGED <<shp, thresholds, use_final_classification_codes, infos, decision>>
    /\ UNCHANGED <<optimizer_vars, application_vars, request_vars, split_vars, cleaner_vars,
                 evaluation_vars>>

\* BuildingValidator.update, with or without a source path, on the tile
\* as it is: on a prepared tile it rewrites the classification (again on its
\* own result, up to MaxRepeat times); before prepare it raises and op holds
\* the exception
Update ==
    /\ op \in {"init", "prepare", "update"}
    /\ op = "update" => n < MaxRepeat
    /\ \E src_las_path \in BOOLEAN :
        LET raised == update_error(src_las_path, op # "init", dims)
        IN IF raised = "none"
           THEN /\ op' = "update"
                /\ n' = IF op = "update" THEN n + 1 ELSE 1
           ELSE /\ op' = raised
                /\ n' = 0
    /\ las' = IF op' = "update"
              THEN update(las, thresholds, use_final_classification_codes)
              ELSE las
    /\ prev' = las
    /\ UNCHANGED <<dims, shp, thresholds, use_final_classification_codes, infos, decision>>
    /\ UNCHANGED <<optimizer_vars, application_vars, request_vars, split_vars, cleaner_vars,
                 evaluation_vars>>

\* BuildingCompletor.run on the pipeline left by the validator (again on
\* its own result, up to MaxRepeat times)
CompletorRun ==
    /\ op \in {"update", "complete"}
    /\ op = "complete" => n < MaxRepeat
    /\ las' = completor_run(las)
    /\ dims' = dims \cup {"ClusterID_isolated_plus_confirmed"}
    /\ prev' = las
    /\ op' = "complete"
    /\ n' = IF op = "complete" THEN n + 1 ELSE 1
    /\ UNCHANGED <<shp, thresholds, use_final_classification_codes, infos, decision>>
    /\ UNCHANGED <<optimizer_vars, application_vars, request_vars, split_vars, cleaner_vars,
                 evaluation_vars>>

Next == Prepare \/ Update \/ CompletorRun

Spec == Init /\ [][Next]_vars

---------------------------------------------------------------------------
(* Specification of the cluster decision on its own *)

ClusterMembers == [p : ProbaLevels, o : {0, 1}, e : EntropyLevels]

\* the target of a cluster info: None (the empty sequence here) or the
\* ground-truth flag that the optimiser derives from the labels
ClusterTargets == {<<>>, <<codes.final.building>>, <<codes.final.not_building>>}

ClusterInfoOf(ms, target) ==
    [probabilities |-> [k \in DOMAIN ms |-> ms[k].p],
     overlays      |-> [k \in DOMAIN ms |-> ms[k].o],
     entropies     |-> [k \in DOMAIN ms |-> ms[k].e],
     target        |-> target]

ClusterInfos ==
    UNION {{ClusterInfoOf(ms, target) :
                ms \in [1..len -> ClusterMembers], target \in ClusterTargets} :
            len \in 1..MaxClusterSize}

ThresholdSets ==
    [min_confidence_confirmation : {2, 4},
     min_frac_confirmation : {2, 3},
     min_frac_confirmation_factor_if_bd_uni_overlay : {2, 4},
     min_uni_db_overlay_frac : {2, 3},
     min_confidence_refutation : {3},
     min_frac_refutation : {2, 4},
     min_entropy_uncertainty : {2},
     min_frac_entropy_uncertain : {2, 4}]

InitDecide ==
    /\ las = <<>>
    /\ dims = {}
    /\ shp = {}
    /\ thresholds \in ThresholdSets
    /\ use_final_classification_codes = TRUE
    /\ op = "init"
    /\ n = 0
    /\ prev = <<>>
    /\ infos \in ClusterInfos
    /\ decision = NoDecision
    /\ OptimizerIdle /\ ApplicationIdle /\ RequestIdle /\ SplitIdle /\ CleanerIdle
    /\ EvaluationIdle

\* one call of _make_detailed_group_decision and of _make_group_decision
Decide ==
    /\ op = "init"
    /\ decision' = [detailed |-> make_detailed_group_decision(infos, thresholds),
                    final |-> make_group_decision(infos, thresholds)]
    /\ op' = "decide"
    /\ UNCHANGED <<las, dims, shp, thresholds, use_final_classification_codes,
                   n, prev, infos>>
    /\ UNCHANGED <<optimizer_vars, application_vars, request_vars, split_vars, cleaner_vars,
                 evaluation_vars>>

NextDecide == Decide

SpecDecide == InitDecide /\ [][NextDecide]_vars

---------------------------------------------------------------------------
(* Properties of the cluster decision (SpecDecide) *)

\* the code that the decision tree of the cluster decision selects for the
\* cluster infos under the thresholds: first matching rule
DecisionTreeCode ==
    LET th == thresholds
        len == Len(infos.probabilities)
        geq(cnt, frac) == cnt * Unit >= frac * len
        entropy_cnt == Cardinality({k \in 1..len :
                            infos.entropies[k] >= th.min_entropy_uncertainty})
        confirm_cnt == Cardinality({k \in 1..len :
                            \/ infos.probabilities[k] >= th.min_confidence_confirmation
                            \/ /\ infos.overlays[k] = 1
                               /\ infos.probabilities[k] * Unit >=
                                    th.min_confidence_confirmation
                                      * th.min_frac_confirmation_factor_if_bd_uni_overlay})
        refute_cnt == Cardinality({k \in 1..len :
                            Unit - infos.probabilities[k] >= th.min_confidence_refutation})
        overlay_cnt == Cardinality({k \in 1..len : infos.overlays[k] = 1})
        overlayed == geq(overlay_cnt, th.min_uni_db_overlay_frac)
    IN CASE geq(entropy_cnt, th.min_frac_entropy_uncertain) ->
                codes.detailed.unsure_by_entropy
         [] /\ ~geq(entropy_cnt, th.min_frac_entropy_uncertain)
            /\ geq(refute_cnt, th.min_frac_refutation) ->
                IF overlayed THEN codes.detailed.ia_refuted_but_under_db_uni
                ELSE codes.detailed.ia_refuted
         [] /\ ~geq(entropy_cnt, th.min_frac_entropy_uncertain)
            /\ ~geq(refute_cnt, th.min_frac_refutation)
            /\ geq(confirm_cnt, th.min_frac_confirmation) ->
                IF overlayed THEN codes.detailed.both_confirmed
                ELSE codes.detailed.ia_confirmed_only
         [] OTHER ->
                IF overlayed THEN codes.detailed.db_overlayed_only
                ELSE codes.detailed.both_unsure

\* C1: for every non-empty cluster and every threshold set, the detailed
\* decision is the code of the first matching rule of the decision tree
\* (entropy, then refutation, then confirmation, then overlay), the rules
\* being evaluated on the fractions of the members of the cluster.
C1_FirstMatchingRule ==
    op = "decide" => decision.detailed = DecisionTreeCode

\* a cluster that meets the refutation and the confirmation rule at once,
\* under the database: refutation comes first
C1_Witness ==
    /\ op = "decide"
    /\ infos.probabilities = <<4, 0>>
    /\ infos.overlays = <<1, 1>>
    /\ infos.entropies = <<0, 0>>
    /\ thresholds.min_frac_confirmation = 2
    /\ thresholds.min_frac_refutation = 2
    /\ decision.detailed = codes.detailed.ia_refuted_but_under_db_uni

\* C28: the decision does not depend on the target of the cluster info:
\* under the same thresholds, a record with the same probabilities, overlays
\* and entropies and any other target (or none) gets the same detailed and
\* the same final decision.
C28_TargetIsNotRead ==
    op = "decide" =>
        \A target \in ClusterTargets :
            LET other == [infos EXCEPT !.target = target]
            IN /\ make_detailed_group_decision(other, thresholds) = decision.detailed
               /\ make_group_decision(other, thresholds) = decision.final

\* a cluster confirmed as a building although its target says not_building
C28_Witness ==
    /\ op = "decide"
    /\ infos.target = <<codes.final.not_building>>
    /\ decision.detailed = codes.detailed.ia_confirmed_only
    /\ decision.final = codes.final.building

---------------------------------------------------------------------------
(* Properties of the tile pipeline (Spec) *)

Points == DOMAIN las

\* C2: update never changes the classification of a non-candidate point
\* (candidate_flag = 0) of a prepared tile.
C2_NonCandidatesUntouched ==
    op = "update" =>
        \A i \in Points :
            prev[i].candidate_buildings_flag = 0
                => las[i].Classification = prev[i].Classification

\* an update that rewrote a candidate next to a non-candidate point
C2_Witness ==
    /\ op = "update"
    /\ \E i \in Points : prev[i].candidate_buildings_flag = 0
    /\ \E i \in Points : las[i].Classification # prev[i].Classification

\* C3: prepare leaves the classification of every point unchanged; it only
\* writes candidate_flag, cluster_id_candidates and db_overlay, and leaves
\* the scratch ClusterID dimension at 0.
C3_PrepareKeepsClassification ==
    op = "prepare" =>
        \A i \in Points :
            /\ las[i].Classification = prev[i].Classification
            /\ las[i].building = prev[i].building
            /\ las[i].entropy = prev[i].entropy
            /\ las[i].x = prev[i].x
            /\ las[i].ClusterID_isolated_plus_confirmed
                    = prev[i].ClusterID_isolated_plus_confirmed
            /\ las[i].ClusterID = 0

\* a first prepare that wrote the three dimensions
C3_Witness ==
    /\ op = "prepare"
    /\ n = 1
    /\ \E i \in Points :
            /\ las[i].candidate_buildings_flag = 1
            /\ las[i].ClusterID_candidate_building > 0
            /\ las[i].uni_db_overlay = 1

\* C4: after prepare, a point with cluster_id_candidates > 0 has
\* candidate_flag = 1, and candidate_flag = 1 holds exactly for the points
\* whose input classification is a candidate code.
C4_CandidateSubset ==
    op = "prepare" =>
        \A i \in Points :
            /\ las[i].ClusterID_candidate_building > 0
                    => las[i].candidate_buildings_flag = 1
            /\ las[i].candidate_buildings_flag = 1
                    <=> prev[i].Classification \in candidate_buildings_codes

\* a prepared tile with a clustered candidate and a non-candidate point at
\* the same position
C4_Witness ==
    /\ op = "prepare"
    /\ \E i, j \in Points :
            /\ las[i].ClusterID_candidate_building > 0
            /\ las[j].candidate_buildings_flag = 0
            /\ las[i].x = las[j].x

\* C5: update is idempotent for fixed thresholds: a second update of the
\* tile left by a first update changes the classification of no point.
C5_UpdateIdempotent ==
    (op = "update" /\ n >= 2) =>
        \A i \in Points : las[i].Classification = prev[i].Classification

\* a second update of a tile with a decided cluster and a noise candidate
C5_Witness ==
    /\ op = "update"
    /\ n = 2
    /\ \E i \in Points : las[i].ClusterID_candidate_building > 0
    /\ \E i \in Points : /\ las[i].candidate_buildings_flag = 1
                         /\ las[i].ClusterID_candidate_building = 0

\* C6: prepare run twice on a tile (same configuration, same vector layer)
\* leaves the tile as the first run left it.
C6_PrepareIdempotent ==
    (op = "prepare" /\ n >= 2) => las = prev

\* a second prepare of a tile with a cluster under a polygon of the layer
C6_Witness ==
    /\ op = "prepare"
    /\ n = 2
    /\ \E i \in Points : /\ las[i].ClusterID_candidate_building > 0
                         /\ las[i].uni_db_overlay = 1

\* C7: the completor never demotes: a point with the final building code
\* before the run has it after the run.
C7_CompletorNeverDemotes ==
    op = "complete" =>
        \A i \in Points :
            prev[i].Classification = codes.final.building
                => las[i].Classification = codes.final.building

\* a run that promoted a point next to a confirmed building
C7_Witness ==
    /\ op = "complete"
    /\ \E i \in Points : prev[i].Classification = codes.final.building
    /\ \E i \in Points : las[i].Classification # prev[i].Classification

\* C8: in update_classification, every cluster with
\* cluster_id_isolated_plus_confirmed > 0 that holds a point with the final
\* building code is wholly rewritten to that code, and every other such
\* cluster is left unchanged, also in a tile without a point of cluster id 0.
C8_EveryClusterCompleted ==
    op = "complete" =>
        \A k \in {las[i].ClusterID_isolated_plus_confirmed : i \in Points} \ {0} :
            LET members == {i \in Points :
                                las[i].ClusterID_isolated_plus_confirmed = k}
            IN IF \E i \in members : prev[i].Classification = codes.final.building
               THEN \A i \in members : las[i].Classification = codes.final.building
               ELSE \A i \in members : las[i].Classification = prev[i].Classification

\* db_overlay zeroed by hand
ZeroOverlay(pts) ==
    [i \in DOMAIN pts |-> [pts[i] EXCEPT !.uni_db_overlay = 0]]

\* C9: with a vector layer without polygons, db_overlay is 0 for every
\* point after prepare, and the classifications written by update are those
\* that update writes on the same tile with db_overlay zeroed.
C9_EmptyLayerIsZeroOverlay ==
    /\ (shp = {} /\ op = "prepare") =>
            \A i \in Points : las[i].uni_db_overlay = 0
    /\ (shp = {} /\ op = "update") =>
            \A i \in Points :
                las[i].Classification =
                    update(ZeroOverlay(prev), thresholds,
                           use_final_classification_codes)[i].Classification

\* an update, without any polygon, that decided a cluster
C9_Witness ==
    /\ shp = {}
    /\ op = "update"
    /\ n = 1
    /\ \E i \in Points : /\ las[i].ClusterID_candidate_building > 0
                         /\ las[i].Classification # prev[i].Classification

\* the detailed decision of a group of the prepared tile
DetailedOfGroup(pts_idx) ==
    make_detailed_group_decision(extract_cluster_info_by_idx(prev, pts_idx), thresholds)

C13_OnlyFinalCodes ==
    (op = "update" /\ use_final_classification_codes) =>
        /\ \A i \in Points :
                prev[i].candidate_buildings_flag = 1
                    => las[i].Classification \in FinalCodes
        /\ {las[i].Classification : i \in Points} \subseteq
                {prev[i].Classification :
                    i \in {j \in Points : prev[j].candidate_buildings_flag = 0}}
                \cup FinalCodes

\* a first update with final codes of a tile with a decided cluster, beside
\* a point that is no candidate
C13_Witness ==
    /\ op = "update"
    /\ n = 1
    /\ use_final_classification_codes
    /\ \E i, j \in Points :
            /\ prev[i].ClusterID_candidate_building > 0
            /\ prev[i].Classification \in candidate_buildings_codes
            /\ las[i].Classification \in {codes.final.unsure, codes.final.building}
            /\ las[j].Classification = OtherCode

\* the promotion predicate on the tile handed to the completor: a candidate
\* outside every cluster of the validator, whose probability is at least
\* min_building_proba, or at least min_building_proba relaxed by its factor
\* when the point is under a polygon of the database
Promotable ==
    {i \in Points :
        /\ prev[i].candidate_buildings_flag = 1
        /\ prev[i].ClusterID_candidate_building = 0
        /\ \/ prev[i].building >= min_building_proba
           \/ /\ prev[i].uni_db_overlay # 0
              /\ prev[i].building * Unit >=
                    min_building_proba
                        * min_building_proba_relaxation_if_bd_uni_overlay}

\* the points that have the final building code before the run
ConfirmedBefore ==
    {i \in Points : prev[i].Classification = codes.final.building}

C27_UpdateBeforePrepareFails ==
    /\ op = "update" =>
            {"candidate_buildings_flag", "ClusterID_candidate_building"}
                \subseteq dims
    /\ op \in {"AttributeError", "ValueError"} =>
            /\ dims = {}
            /\ las = prev
            /\ \A i \in Points : las[i].Classification = prev[i].Classification

\* update called on the source path of a tile of candidates that was never
\* prepared
C27_Witness ==
    /\ op = "ValueError"
    /\ dims = {}
    /\ \A i \in Points : las[i].Classification \in candidate_buildings_codes

\* C29: the completor changes the classification of promoted isolated
\* points only: a point whose classification differs after the run is a
\* promotable point and ends with the final building code.
C29_OnlyPromotedChange ==
    op = "complete" =>
        \A i \in Points :
            las[i].Classification # prev[i].Classification
                => /\ i \in Promotable
                   /\ las[i].Classification = codes.final.building

\* a run that promoted a point and kept a candidate of low probability, which
\* no validator cluster holds, as it was
C29_Witness ==
    /\ op = "complete"
    /\ \E i, j \in Points :
            /\ las[i].Classification # prev[i].Classification
            /\ prev[j].candidate_buildings_flag = 1
            /\ prev[j].ClusterID_candidate_building = 0
            /\ j \notin Promotable
            /\ las[j].Classification = prev[j].Classification

\* C30: a second run of the completor on the tile left by a first run
\* changes the classification of no point, and the clusters of the points
\* are those of the first run.
C30_CompletorIdempotent ==
    (op = "complete" /\ n >= 2) =>
        \A i \in Points :
            /\ las[i].Classification = prev[i].Classification
            /\ las[i].ClusterID_isolated_plus_confirmed
                    = prev[i].ClusterID_isolated_plus_confirmed

\* a second run on a tile with an isolated candidate that the first run
\* promoted
C30_Witness ==
    /\ op = "complete"
    /\ n = 2
    /\ \E i \in Points :
            /\ las[i].candidate_buildings_flag = 1
            /\ las[i].ClusterID_candidate_building = 0
            /\ las[i].ClusterID_isolated_plus_confirmed > 0
            /\ las[i].Classification = codes.final.building

\* the members of cluster k of the prepared tile, in the order of the tile
MembersOfCluster(k) ==
    SelectSeq([i \in Points |-> i],
              LAMBDA i : prev[i].ClusterID_candidate_building = k)

\* the code that update has to write for a group of the prepared tile
DecidedCode(pts_idx) ==
    IF use_final_classification_codes
    THEN detailed_to_final_map[DetailedOfGroup(pts_idx)]
    ELSE DetailedOfGroup(pts_idx)

\* C21: after update, for every cluster id k > 0 of the prepared tile, all
\* the points of cluster k carry the code decided from the statistics of
\* the members of the cluster, also in a tile without a point of cluster
\* id 0.
C21_EveryClusterDecided ==
    op = "update" =>
        \A k \in {prev[i].ClusterID_candidate_building : i \in Points} \ {0} :
            \A i \in Range(MembersOfCluster(k)) :
                las[i].Classification = DecidedCode(MembersOfCluster(k))

\* C22: after update, every candidate point that belongs to no cluster
\* (candidate_flag = 1 and cluster_id_candidates = 0) has the final
\* not_building code, with detailed codes as with final codes.
C22_NoiseIsNotBuilding ==
    op = "update" =>
        \A i \in Points :
            (prev[i].candidate_buildings_flag = 1
                /\ prev[i].ClusterID_candidate_building = 0)
                => las[i].Classification = codes.final.not_building

\* an update with detailed codes of a tile with a noise candidate of high
\* probability beside a cluster that got a detailed code
C22_Witness ==
    /\ op = "update"
    /\ n = 1
    /\ ~use_final_classification_codes
    /\ \E i, j \in Points :
            /\ prev[i].candidate_buildings_flag = 1
            /\ prev[i].ClusterID_candidate_building = 0
            /\ prev[i].building = Unit
            /\ las[i].Classification = codes.final.not_building
            /\ prev[j].ClusterID_candidate_building > 0
            /\ las[j].Classification \in DetailedCodes

---------------------------------------------------------------------------
(* BuildingValidationOptimizer: objective, penalty and selection of rules *)

\* largest number of trials of a study
MaxTrials == 2

\* a metric that is nan (a division 0 / 0 of _evaluate_decisions)
NaN == -1

\* design.constraints of the optimiser: minimal precision and recall at
\* 0.75, minimal automation at 0.5
design ==
    [constraints |->
        [min_precision_constraint |-> 3,
         min_recall_constraint |-> 3,
         min_automation_constraint |-> 2]]

\* the metrics that _evaluate_decisions can hand to the objective
AutomationLevels == {0, 2, 4}
PrecisionLevels == {NaN, 2, 3, 4}
RecallLevels == {NaN, 2, 4}

\* _compute_penalty keeping the largest shortfall only
compute_penalty_largest(auto, precision, recall) ==
    LET c == design.constraints
        a == IF precision < c.min_precision_constraint
             THEN c.min_precision_constraint - precision ELSE 0
        b == IF recall < c.min_recall_constraint
             THEN c.min_recall_constraint - recall ELSE 0
        d == IF auto < c.min_automation_constraint
             THEN c.min_automation_constraint - auto ELSE 0
        m == IF a >= b THEN a ELSE b
    IN << IF m >= d THEN m ELSE d >>

\* BuildingValidationOptimizer._compute_penalty (returns a list of one value)
compute_penalty(auto, precision, recall) ==
    LET c == design.constraints
        penalty0 == 0
        penalty1 == IF precision < c.min_precision_constraint
                    THEN penalty0 + (c.min_precision_constraint - precision)
                    ELSE penalty0
        penalty2 == IF recall < c.min_recall_constraint
                    THEN penalty1 + (c.min_recall_constraint - recall)
                    ELSE penalty1
        penalty3 == IF auto < c.min_automation_constraint
                    THEN penalty2 + (c.min_automation_constraint - auto)
                    ELSE penalty2
    IN <<penalty3>>

\* the thresholds that the sampler suggests to the trial of a given number:
\* the search is over the eight thresholds; two trials of a study never get
\* the same suggestion
suggest(number) ==
    [ApplicationThresholds EXCEPT !.min_confidence_confirmation = number]

\* objective without the replacement of nan
objective_keeping_nan(number, metrics) ==
    [number |-> number,
     params |-> suggest(number),
     user_attrs |-> [constraint |->
                        compute_penalty(metrics[1], metrics[2], metrics[3])],
     values |-> metrics]

\* BuildingValidationOptimizer._objective on a trial, metrics_dict holding
\* the three metrics (auto, precision, recall) of the decisions: the values
\* of the trial and its "constraint" user attribute
objective(number, metrics) ==
    LET value(v) == IF v # NaN THEN v ELSE 0
        auto == value(metrics[1])
        precision == value(metrics[2])
        recall == value(metrics[3])
    IN [number |-> number,
        params |-> suggest(number),
        user_attrs |-> [constraint |-> compute_penalty(auto, precision, recall)],
        values |-> <<auto, precision, recall>>]

\* a trial dominates another one (all three objectives are maximised)
dominates(t, u) ==
    /\ \A k \in 1..3 : t.values[k] >= u.values[k]
    /\ \E k \in 1..3 : t.values[k] > u.values[k]

\* study.best_trials: the trials of the Pareto front, in the order of the
\* study
best_trials(trials) ==
    SelectSeq(trials, LAMBDA t : ~\E k \in DOMAIN trials : dominates(trials[k], t))

\* sorted(trials, key=..., reverse=True) with the order reversed
sorted_ascending(trials, keys) ==
    LET rank(i) == 1 + Cardinality({j \in DOMAIN trials :
                        \/ keys[j] < keys[i]
                        \/ (keys[j] = keys[i] /\ j < i)})
    IN [r \in DOMAIN trials |-> trials[CHOOSE i \in DOMAIN trials : rank(i) = r]]

\* sorted(trials, key=..., reverse=True), keys[i] being the key of trials[i]:
\* descending keys, equal keys in their original order
sorted_reverse(trials, keys) ==
    LET rank(i) == 1 + Cardinality({j \in DOMAIN trials :
                        \/ keys[j] > keys[i]
                        \/ (keys[j] = keys[i] /\ j < i)})
    IN [r \in DOMAIN trials |-> trials[CHOOSE i \in DOMAIN trials : rank(i) = r]]

\* np.product(x.values)
product(values) == values[1] * values[2] * values[3]

\* BuildingValidationOptimizer._select_best_rules
select_best_rules(all_trials) ==
    LET front == best_trials(all_trials)
        trials == sorted_reverse(front, [i \in DOMAIN front |-> front[i].values[1]])
        TRIALS_BELOW_ZERO_ARE_VALID == 0
        respect_constraints ==
            SelectSeq(trials, LAMBDA s :
                s.user_attrs.constraint[1] <= TRIALS_BELOW_ZERO_ARE_VALID)
        by_product ==
            sorted_reverse(front, [i \in DOMAIN front |-> product(front[i].values)])
    IN IF respect_constraints # <<>> THEN respect_constraints[1].params
       ELSE IF by_product # <<>> THEN by_product[1].params
       ELSE "IndexError"

\* optimize() runs design.n_trials trials, one after the other, then selects
InitOptimize ==
    /\ study = <<>>
    /\ n_trials \in 1..MaxTrials
    /\ best_rules = <<>>
    /\ metrics_dict = <<>>
    /\ PipelineIdle /\ ApplicationIdle /\ RequestIdle /\ SplitIdle /\ CleanerIdle
    /\ EvaluationIdle

\* one trial of study.optimize: the objective on the suggested thresholds
Objective ==
    /\ Len(study) < n_trials
    /\ \E auto \in AutomationLevels, precision \in PrecisionLevels,
          recall \in RecallLevels :
            /\ metrics_dict' = <<auto, precision, recall>>
            /\ study' = Append(study, objective(Len(study), metrics_dict'))
    /\ UNCHANGED <<n_trials, best_rules>>
    /\ UNCHANGED <<pipeline_vars, application_vars, request_vars, split_vars, cleaner_vars,
                 evaluation_vars>>

\* best_rules = self._select_best_rules(self.study), after the last trial
SelectBestRules ==
    /\ Len(study) = n_trials
    /\ best_rules = <<>>
    /\ best_rules' = select_best_rules(study)
    /\ UNCHANGED <<study, n_trials, metrics_dict>>
    /\ UNCHANGED <<pipeline_vars, application_vars, request_vars, split_vars, cleaner_vars,
                 evaluation_vars>>

NextOptimize == Objective \/ SelectBestRules

SpecOptimize == InitOptimize /\ [][NextOptimize]_vars

---------------------------------------------------------------------------
(* Properties of the optimiser (SpecOptimize) *)

Trials == {study[k] : k \in DOMAIN study}

\* how far a metric is below its minimum
Shortfall(minimum, value) == IF value < minimum THEN minimum - value ELSE 0

\* C11: the constraint penalty of a trial is the sum of the shortfalls of
\* precision, recall and automation below their configured minima, and it is
\* zero if and only if the three metrics are at or above their minimum.
C11_PenaltyIsSumOfShortfalls ==
    \A t \in Trials :
        LET c == design.constraints
            penalty == t.user_attrs.constraint[1]
        IN /\ penalty = Shortfall(c.min_precision_constraint, t.values[2])
                        + Shortfall(c.min_recall_constraint, t.values[3])
                        + Shortfall(c.min_automation_constraint, t.values[1])
           /\ penalty = 0 <=>
                /\ t.values[2] >= c.min_precision_constraint
                /\ t.values[3] >= c.min_recall_constraint
                /\ t.values[1] >= c.min_automation_constraint

\* a study with a feasible trial and with a trial short of two minima at once
C11_Witness ==
    /\ \E t \in Trials : t.user_attrs.constraint[1] = 0
    /\ \E t \in Trials :
            /\ t.values[2] = 2 /\ t.values[3] = 2 /\ t.values[1] = 4
            /\ t.user_attrs.constraint[1] = 2

Feasible(t) == t.user_attrs.constraint[1] = 0

\* C12: the selected rules are the thresholds of a feasible trial whose
\* automation is the largest among the feasible trials of the study; without
\* a feasible trial they are the thresholds of a trial whose product
\* automation * precision * recall is the largest among all trials.
C12_BestRulesSelected ==
    best_rules # <<>> =>
        IF \E t \in Trials : Feasible(t)
        THEN \E t \in Trials :
                /\ best_rules = t.params
                /\ Feasible(t)
                /\ \A u \in Trials : Feasible(u) => u.values[1] <= t.values[1]
        ELSE \E t \in Trials :
                /\ best_rules = t.params
                /\ \A u \in Trials : product(u.values) <= product(t.values)

\* the rules of a feasible trial selected although a trial of the Pareto
\* front that misses the precision minimum has more automation
C12_Witness ==
    /\ best_rules # <<>>
    /\ \E t, u \in Trials :
            /\ best_rules = t.params
            /\ Feasible(t)
            /\ ~Feasible(u)
            /\ u.values[1] > t.values[1]
            /\ ~dominates(t, u)

\* the minima of automation, precision and recall, in the order of the
\* values of a trial
Minima ==
    <<design.constraints.min_automation_constraint,
      design.constraints.min_precision_constraint,
      design.constraints.min_recall_constraint>>

\* C26: in the objective a metric that is nan is replaced by 0 before the
\* penalty is computed and before the values are returned, so that a trial
\* with an undefined metric is infeasible whenever the minimum of that
\* metric is positive.
C26_NanCountsAsZero ==
    study # <<>> =>
        LET t == study[Len(study)]
        IN /\ \A k \in 1..3 :
                /\ metrics_dict[k] = NaN => t.values[k] = 0
                /\ metrics_dict[k] # NaN => t.values[k] = metrics_dict[k]
                /\ (metrics_dict[k] = NaN /\ Minima[k] > 0) => ~Feasible(t)
           /\ t.user_attrs.constraint[1] =
                Shortfall(Minima[1], t.values[1]) + Shortfall(Minima[2], t.values[2])
                    + Shortfall(Minima[3], t.values[3])

\* a trial without precision (nan) whose recall and automation meet their
\* minima: its penalty is the whole minimum of precision
C26_Witness ==
    /\ study # <<>>
    /\ metrics_dict = <<4, NaN, 4>>
    /\ study[Len(study)].values = <<4, 0, 4>>
    /\ study[Len(study)].user_attrs.constraint[1]
            = design.constraints.min_precision_constraint

---------------------------------------------------------------------------
(* The orchestrator: apply over the tiles, apply_building_module on a tile *)

\* largest number of tiles of a batch
MaxTiles == 2

\* the files that config.paths.src_las can hold
LasFiles == {"a.las", "b.laz", "c.las"}

\* the batches: get_list_las_path_from_src lists the .las and .laz files of
\* the source, each once
Batches ==
    {b \in UNION {[1..len -> LasFiles] : len \in 1..MaxTiles} :
        \A i, j \in DOMAIN b : b[i] = b[j] => i = j}

\* the statements of apply_building_module with the completor called before
\* the update of the validator
ModuleStepsCompletorFirst ==
    <<"cl_run_input", "bv_prepare", "bc_run", "bv_update", "bi_run",
      "cl_run_output">>

\* the statements of apply_building_module (and of BuildingValidator.run) in
\* the order of the code: Cleaner of the input, BuildingValidator.prepare,
\* BuildingValidator.update, BuildingCompletor.run, BuildingIdentifier.run,
\* Cleaner of the output, which writes the output tile
ModuleSteps ==
    <<"cl_run_input", "bv_prepare", "bv_update", "bc_run", "bi_run",
      "cl_run_output">>

\* the statement that the control reaches when a statement has completed; the
\* return to the loop of apply after the last one
next_step(step) ==
    LET k == CHOOSE i \in DOMAIN ModuleSteps : ModuleSteps[i] = step
    IN IF k < Len(ModuleSteps) THEN ModuleSteps[k + 1] ELSE "apply"

\* os.path.join(config.paths.output_dir, os.path.basename(src_las_path))
target_las_path(src_las_path) == <<"output_dir", src_las_path>>

\* the temporary directories: the TemporaryDirectory of
\* apply_building_module, the TemporaryDirectory of BuildingValidator.run and
\* the mkdtemp of BuildingValidator.prepare
module_td(k) == <<k, "apply_building_module">>
run_td(k) == <<k, "run">>
prepare_temp_dirpath(k) == <<k, "prepare">>

\* the directories that the `with` statements delete when an exception
\* leaves them
ScopedDirs(k) == {module_td(k), run_td(k)}

\* where in BuildingValidator.prepare an exception can be raised: by the
\* first execute of the pipeline, by the reading or the request of the vector
\* layer, by the last execute of the pipeline
PrepareFailures == {"cluster_execute", "shapefile", "overlay_execute"}

\* the directories that BuildingValidator.prepare leaves behind: temp_dirpath
\* is made by mkdtemp when no shp_path is configured, after the first execute,
\* and removed by the rmtree of the last statement
prepare_dirs_left(k, no_shp_path, failure) ==
    LET created == no_shp_path /\ failure # "cluster_execute"
        removed == failure = "none"
    IN IF created /\ ~removed THEN {prepare_temp_dirpath(k)} ELSE {}

InitApply ==
    /\ src_las \in Batches
    /\ shp_path \in BOOLEAN
    /\ tile = 0
    /\ pc = "apply"
    /\ steps = [k \in DOMAIN src_las |-> <<>>]
    /\ temp_dirs = {}
    /\ written = {}
    /\ applied_file_list = <<>>
    /\ PipelineIdle /\ OptimizerIdle /\ RequestIdle /\ SplitIdle /\ CleanerIdle
    /\ EvaluationIdle

ApplicationRest == UNCHANGED <<pipeline_vars, optimizer_vars, request_vars, split_vars, cleaner_vars,
        evaluation_vars>>

\* an exception leaves apply_building_module and then apply, which does not
\* catch it: the loop over the tiles ends
raise_from(k, left) ==
    /\ pc' = "raised"
    /\ temp_dirs' = (temp_dirs \ ScopedDirs(k)) \cup left
    /\ UNCHANGED <<src_las, shp_path, tile, steps, written, applied_file_list>>

\* a statement of the module has completed on tile k
completed(k, step) ==
    /\ steps' = [steps EXCEPT ![k] = Append(@, step)]
    /\ pc' = next_step(step)

\* apply: the next tile of the loop; apply_building_module enters its
\* TemporaryDirectory
logic ==
    /\ pc = "apply"
    /\ tile < Len(src_las)
    /\ tile' = tile + 1
    /\ temp_dirs' = temp_dirs \cup {module_td(tile + 1)}
    /\ pc' = ModuleSteps[1]
    /\ UNCHANGED <<src_las, shp_path, steps, written, applied_file_list>>
    /\ ApplicationRest

\* apply: the loop is over, the list is returned
return_applied_file_list ==
    /\ pc = "apply"
    /\ tile = Len(src_las)
    /\ pc' = "returned"
    /\ UNCHANGED <<src_las, shp_path, tile, steps, temp_dirs, written, applied_file_list>>
    /\ ApplicationRest

\* cl.run(src_las_path, tmp_las_path, epsg)
cl_run_input ==
    /\ pc = "cl_run_input"
    /\ \/ /\ completed(tile, "cl_run_input")
          /\ UNCHANGED <<src_las, shp_path, tile, temp_dirs, written, applied_file_list>>
       \/ raise_from(tile, {})
    /\ ApplicationRest

\* bv.run: enters its TemporaryDirectory and calls self.prepare
bv_prepare ==
    /\ pc = "bv_prepare"
    /\ \/ /\ completed(tile, "bv_prepare")
          /\ temp_dirs' = temp_dirs \cup {run_td(tile)}
                            \cup prepare_dirs_left(tile, ~shp_path, "none")
          /\ UNCHANGED <<src_las, shp_path, tile, written, applied_file_list>>
       \/ \E failure \in PrepareFailures :
            raise_from(tile, prepare_dirs_left(tile, ~shp_path, failure))
    /\ ApplicationRest

\* bv.run: self.update(), then the TemporaryDirectory of run is left
bv_update ==
    /\ pc = "bv_update"
    /\ \/ /\ completed(tile, "bv_update")
          /\ temp_dirs' = temp_dirs \ {run_td(tile)}
          /\ UNCHANGED <<src_las, shp_path, tile, written, applied_file_list>>
       \/ raise_from(tile, {})
    /\ ApplicationRest

\* bc.run(bv.pipeline, las_metadata)
bc_run ==
    /\ pc = "bc_run"
    /\ \/ /\ completed(tile, "bc_run")
          /\ UNCHANGED <<src_las, shp_path, tile, temp_dirs, written, applied_file_list>>
       \/ raise_from(tile, {})
    /\ ApplicationRest

\* bi.run(bc.pipeline, tmp_las_path, las_metadata)
bi_run ==
    /\ pc = "bi_run"
    /\ \/ /\ completed(tile, "bi_run")
          /\ UNCHANGED <<src_las, shp_path, tile, temp_dirs, written, applied_file_list>>
       \/ raise_from(tile, {})
    /\ ApplicationRest

\* cl.run(tmp_las_path, dest_las_path, epsg) writes the output tile; the
\* TemporaryDirectory of the module is left, dest_las_path is returned and
\* apply appends it to its list
cl_run_output ==
    /\ pc = "cl_run_output"
    /\ \/ /\ completed(tile, "cl_run_output")
          /\ written' = written \cup {target_las_path(src_las[tile])}
          /\ temp_dirs' = temp_dirs \ {module_td(tile)}
          /\ applied_file_list' =
                Append(applied_file_list, target_las_path(src_las[tile]))
          /\ UNCHANGED <<src_las, shp_path, tile>>
       \/ raise_from(tile, {})
    /\ ApplicationRest

NextApply ==
    \/ logic
    \/ return_applied_file_list
    \/ cl_run_input
    \/ bv_prepare
    \/ bv_update
    \/ bc_run
    \/ bi_run
    \/ cl_run_output

SpecApply == InitApply /\ [][NextApply]_vars

---------------------------------------------------------------------------
(* Properties of the orchestrator (SpecApply) *)

\* the steps of the contract on a tile, in their order
TileOrder == <<"bv_prepare", "bv_update", "bc_run", "bi_run", "cl_run_output">>

\* the steps of the contract among the statements completed on tile k
ContractSteps(k) ==
    SelectSeq(steps[k], LAMBDA st : \E i \in DOMAIN TileOrder : TileOrder[i] = st)

\* C14: on each tile the steps run in the order Validator.prepare,
\* Validator.update, Completor.run, Identifier.run, writer: at any time the
\* steps completed on a tile are the first ones of that order, each once, and
\* the output tile is written only once all of them have completed.
C14_StrictStepOrder ==
    \A k \in DOMAIN steps :
        /\ Len(ContractSteps(k)) <= Len(TileOrder)
        /\ ContractSteps(k) = SubSeq(TileOrder, 1, Len(ContractSteps(k)))
        /\ target_las_path(src_las[k]) \in written => ContractSteps(k) = TileOrder

\* a batch of two tiles wholly processed
C14_Witness ==
    /\ pc = "returned"
    /\ Len(src_las) = 2
    /\ \A k \in DOMAIN steps : ContractSteps(k) = TileOrder
    /\ Len(applied_file_list) = 2

\* the run of apply is over: the list is returned or an exception left apply
ApplyIsOver == pc \in {"returned", "raised"}

\* C17: a failure of the logic on one tile is not fatal for the batch: when
\* apply is over, every tile but a failing one has been processed and its
\* output path is in the list.
C17_TileFailureIsNotFatal ==
    ApplyIsOver =>
        \A k \in DOMAIN src_las :
            ~(pc = "raised" /\ tile = k) =>
                /\ target_las_path(src_las[k]) \in written
                /\ \E i \in DOMAIN applied_file_list :
                        applied_file_list[i] = target_las_path(src_las[k])

\* C18: every temporary directory made while a tile is processed is deleted
\* on every exit path: none is left when the control is back in apply,
\* whether the logic returned or raised.
C18_TempDirsDeleted ==
    pc \in {"apply", "returned", "raised"} => temp_dirs = {}

---------------------------------------------------------------------------
(* request_bd_uni_for_building_shapefile (lidar_prod.tasks.utils) *)

\* number of positions that a bbox can cover
MaxBboxWidth == 2

\* public.gcms_territoire: the metropolitan territory with srid 2154, and two
\* territories that share the srid 5490, apart from each other. A geometry is
\* the set of the positions it covers, in the coordinates of its projection.
gcms_territoire ==
    {[code |-> "FXX", srid |-> 2154, geometrie |-> {0, 1}],
     [code |-> "GLP", srid |-> 5490, geometrie |-> {2}],
     [code |-> "MTQ", srid |-> 5490, geometrie |-> {4}]}

\* the rows that the tables batiment and reservoir can hold
BatimentRows ==
    {[gcms_territoire |-> "FXX", geometrie |-> {0}, gcms_detruit |-> FALSE],
     [gcms_territoire |-> "FXX", geometrie |-> {1}, gcms_detruit |-> TRUE],
     [gcms_territoire |-> "GLP", geometrie |-> {2}, gcms_detruit |-> FALSE]}

ReservoirRows ==
    {[gcms_territoire |-> "FXX", geometrie |-> {1}, gcms_detruit |-> FALSE,
      nature |-> "Chateau d'eau"],
     [gcms_territoire |-> "MTQ", geometrie |-> {4}, gcms_detruit |-> FALSE,
      nature |-> "Reservoir d'eau"]}

\* the databases: the table of the territories is fixed
Databases ==
    [territoire : {gcms_territoire},
     batiment : SUBSET BatimentRows,
     reservoir : SUBSET ReservoirRows]

\* the bounding boxes: intervals of positions
Bboxes ==
    {lo..hi : lo \in 0..4, hi \in 0..4} \ {{}}

\* the epsg argument, cut at its ":" (an int or a string of digits makes one
\* part)
Epsgs == {<<2154>>, <<"EPSG", 2154>>, <<5490>>}

\* what can go wrong with the connections: nothing, psycopg2.connect fails,
\* pgsql2shp cannot translate the host name (CalledProcessError), the
\* connection is refused, the call times out
Faults == {"none", "connect", "host_name", "connection_refused", "timeout"}

\* epsg if (isinstance(epsg, int) or epsg.isdigit()) else epsg.split(":")[-1]
epsg_srid_of(e) == e[Len(e)]

Max(S) == CHOOSE m \in S : \A j \in S : m >= j

\* ST_Envelope of a geometry: its bounding interval
ST_Envelope(geometrie) ==
    IF geometrie = {} THEN {} ELSE Min(geometrie)..Max(geometrie)

\* the check intersecting the bbox with the territories of any srid
check_bbox_intersects_territoire(db, box, epsg_srid) ==
    LET geometries == {t.geometrie : t \in db.territoire}
    IN /\ geometries # {}
       /\ box \cap ST_Envelope(UNION geometries) # {}

\* check_bbox_intersects_territoire_with_srid, followed by `not` in the
\* caller: ST_Intersects of the envelope of the bbox with the envelope of the
\* union of the territories of the srid; NULL (None) without such a territory
check_bbox_intersects_territoire_with_srid(db, box, epsg_srid) ==
    LET geometries == {t.geometrie : t \in {u \in db.territoire : u.srid = epsg_srid}}
    IN /\ geometries # {}
       /\ box \cap ST_Envelope(UNION geometries) # {}

\* the rows of sql_request: the buildings and the reservoirs (water towers,
\* industrial tanks) not destroyed, of a territory of the srid, whose geometry
\* overlaps the bbox
sql_request(db, box, epsg_srid) ==
    LET territoire == {t.code : t \in {u \in db.territoire : u.srid = epsg_srid}}
        sql_batiment ==
            {b.geometrie : b \in {r \in db.batiment :
                /\ r.gcms_territoire \in territoire
                /\ ST_Envelope(r.geometrie) \cap box # {}
                /\ ~r.gcms_detruit}}
        sql_reservoir ==
            {b.geometrie : b \in {r \in db.reservoir :
                /\ r.gcms_territoire \in territoire
                /\ ST_Envelope(r.geometrie) \cap box # {}
                /\ r.nature \in {"Chateau d'eau", "Reservoir industriel"}
                /\ ~r.gcms_detruit}}
    IN sql_batiment \cup sql_reservoir

\* what subprocess.check_output(cmd, ..., timeout=120, encoding="utf-8")
\* does: pgsql2shp writes the shapefile, or exits with an error
\* (CalledProcessError: without any row it says "empty table" and writes no
\* file), or the call raises
check_output(rows, f) ==
    CASE f = "host_name" -> "CalledProcessError: could not translate host name"
      [] f = "connection_refused" -> "ConnectionRefusedError"
      [] f = "timeout" -> "TimeoutExpired"
      [] OTHER -> IF rows = {} THEN "CalledProcessError: empty table" ELSE "ok"

Raised(exception) == [kind |-> "raised", value |-> exception]
Returned(value) == [kind |-> "returned", value |-> value]

\* the try/except around check_output: the output of a CalledProcessError is
\* a str (encoding="utf-8"), and the test `b"..." in e.output` of a bytes in a
\* str raises TypeError before anything else of the handler runs
handle_check_output(result) ==
    CASE result = "ok" ->
            [outcome |-> Returned("True"), shapefile |-> "polygons"]
      [] result \in {"CalledProcessError: empty table",
                     "CalledProcessError: could not translate host name"} ->
            [outcome |-> Raised("TypeError"), shapefile |-> "none"]
      [] OTHER ->
            [outcome |-> Raised(result), shapefile |-> "none"]

InitRequest ==
    /\ bd_uni \in Databases
    /\ bbox \in {b \in Bboxes : Cardinality(b) <= MaxBboxWidth}
    /\ epsg \in Epsgs
    /\ fault \in Faults
    /\ queries = <<>>
    /\ shapefile = "none"
    /\ outcome = NoOutcome
    /\ PipelineIdle /\ OptimizerIdle /\ ApplicationIdle /\ SplitIdle /\ CleanerIdle
    /\ EvaluationIdle

RequestRest == UNCHANGED <<pipeline_vars, optimizer_vars, application_vars, split_vars, cleaner_vars,
        evaluation_vars>>

\* lines 243-249: the check of the bbox against the territories, and the
\* ValueError when it is negative
check_bbox ==
    /\ queries = <<>>
    /\ outcome = NoOutcome
    /\ IF fault = "connect"
       THEN /\ outcome' = Raised("OperationalError")
            /\ UNCHANGED queries
       ELSE /\ queries' = Append(queries, "gcms_territoire")
            /\ outcome' =
                IF ~check_bbox_intersects_territoire_with_srid(
                        bd_uni, bbox, epsg_srid_of(epsg))
                THEN Raised("ValueError")
                ELSE NoOutcome
    /\ UNCHANGED <<bd_uni, bbox, epsg, fault, shapefile>>
    /\ RequestRest

\* lines 251-318: the request of the buildings and reservoirs by pgsql2shp
\* and the handling of its failures
pgsql2shp ==
    /\ queries = <<"gcms_territoire">>
    /\ outcome = NoOutcome
    /\ queries' = Append(queries, "batiment UNION reservoir")
    /\ LET rows == sql_request(bd_uni, bbox, epsg_srid_of(epsg))
           handled == handle_check_output(check_output(rows, fault))
       IN /\ outcome' = handled.outcome
          /\ shapefile' = handled.shapefile
    /\ UNCHANGED <<bd_uni, bbox, epsg, fault>>
    /\ RequestRest

NextRequest == check_bbox \/ pgsql2shp

SpecRequest == InitRequest /\ [][NextRequest]_vars

---------------------------------------------------------------------------
(* Properties of the request to the vector database (SpecRequest) *)

\* the rows that the request of the buildings and reservoirs selects
RequestedRows == sql_request(bd_uni, bbox, epsg_srid_of(epsg))

\* C15: an empty result is a success and no error: when pgsql2shp fails only
\* because no row is selected, the function returns False without raising
\* and leaves an empty shapefile; every other failure of the utility
\* (connection refused, host name, timeout) reaches the caller unchanged.
C15_EmptyResultIsNotAnError ==
    Len(queries) = 2 =>
        /\ (fault = "none" /\ RequestedRows = {}) =>
                outcome = Returned("False") /\ shapefile = "empty"
        /\ fault = "host_name" =>
                outcome = Raised("CalledProcessError: could not translate host name")
        /\ fault = "connection_refused" => outcome = Raised("ConnectionRefusedError")
        /\ fault = "timeout" => outcome = Raised("TimeoutExpired")

\* the territories registered with the requested srid
TerritoriesOfSrid == {t \in bd_uni.territoire : t.srid = epsg[Len(epsg)]}

\* the bbox intersects a territory registered with the requested srid
IntersectsATerritory == \E t \in TerritoriesOfSrid : bbox \cap t.geometrie # {}

\* the bbox intersects the bounding envelope of the territories registered
\* with the requested srid, taken together
IntersectsTheEnvelope ==
    \E t, u \in TerritoriesOfSrid : \E x \in bbox, lo \in t.geometrie, hi \in u.geometrie :
        lo <= x /\ x <= hi

---------------------------------------------------------------------------
(* split_idx_by_dim on its own *)

\* largest length of the array
MaxArrayLen == 3

\* the values of the dimension (cluster ids)
DimValues == 0..3

\* the arrays: any values in any order, the empty array included
DimArrays == UNION {[1..len -> DimValues] : len \in 0..MaxArrayLen}

\* an argsort that leaves the array in its order
UnsortedOrder(a) == {[k \in DOMAIN a |-> k]}

\* what np.argsort(dim_array) can return: its default sort is not stable, so
\* the indices are in ascending order of their value and the indices of
\* equal values are in any order
ArgSorts(a) ==
    {idx \in [DOMAIN a -> DOMAIN a] :
        /\ \A i, j \in DOMAIN a : idx[i] = idx[j] => i = j
        /\ \A i, j \in DOMAIN a : i < j => a[idx[i]] <= a[idx[j]]}

InitSplit ==
    /\ dim_values \in DimArrays
    /\ group_idx = <<>>
    /\ PipelineIdle /\ OptimizerIdle /\ ApplicationIdle /\ RequestIdle /\ CleanerIdle
    /\ EvaluationIdle

\* group_idx = split_idx_by_dim(dim_array); the indices are those of the
\* array counted from 1
Split ==
    /\ group_idx = <<>>
    /\ \E idx \in ArgSorts(dim_values) :
            group_idx' = split_sorted_idx(dim_values, idx)
    /\ UNCHANGED dim_values
    /\ UNCHANGED <<pipeline_vars, optimizer_vars, application_vars, request_vars, cleaner_vars,
                 evaluation_vars>>

NextSplit == Split

SpecSplit == InitSplit /\ [][NextSplit]_vars

---------------------------------------------------------------------------
(* Properties of split_idx_by_dim (SpecSplit) *)

\* the groups are a partition of the indices by value, in ascending order:
\* every index is in exactly one group, once; the indices of a group carry
\* the same value; the groups are ordered by strictly ascending value
PartitionByAscendingValue ==
    /\ \A i \in DOMAIN dim_values :
            Cardinality({<<g, k>> \in UNION {{g} \X DOMAIN group_idx[g] :
                                                g \in DOMAIN group_idx} :
                            group_idx[g][k] = i}) = 1
    /\ \A g \in DOMAIN group_idx : \A k \in DOMAIN group_idx[g] :
            group_idx[g][k] \in DOMAIN dim_values
    /\ \A g \in DOMAIN group_idx : \A k, l \in DOMAIN group_idx[g] :
            dim_values[group_idx[g][k]] = dim_values[group_idx[g][l]]
    /\ \A g, h \in DOMAIN group_idx :
            g < h => \A k \in DOMAIN group_idx[g], l \in DOMAIN group_idx[h] :
                        dim_values[group_idx[g][k]] < dim_values[group_idx[h][l]]

\* there is exactly one group per distinct value
OneGroupPerValue ==
    Len(group_idx) = Cardinality({dim_values[i] : i \in DOMAIN dim_values})

\* C19 as stated: for any array, every index is in exactly one group, the
\* indices of a group carry the same value, there is exactly one group per
\* distinct value, and the groups are in strictly ascending order of value.
C19_GroupsOfAnyArray ==
    group_idx # <<>> => PartitionByAscendingValue /\ OneGroupPerValue

\* C19, amended: the same for any array that is not empty; for the empty
\* array the result is one group, which is empty.
C19_GroupsOfNonEmptyArray ==
    group_idx # <<>> =>
        /\ PartitionByAscendingValue
        /\ dim_values # <<>> => OneGroupPerValue
        /\ dim_values = <<>> => group_idx = << <<>> >>

\* an array that is not sorted and repeats a value
C19_Witness ==
    /\ dim_values = <<1, 0, 1>>
    /\ Len(group_idx) = 2
    /\ group_idx[1] = <<2>>
    /\ {group_idx[2][k] : k \in DOMAIN group_idx[2]} = {1, 3}

---------------------------------------------------------------------------
(* Cleaner.remove_dimensions *)

\* largest number of extra dimensions of a tile, and of entries of a
\* configured list
MaxExtraDims == 3

\* the names of the extra dimensions that a tile can have
ExtraDimensionNames == {"entropy", "building", "ground"}

\* the tiles: their extra dimensions, each once, in some order
ExtraDimensionLists ==
    {d \in UNION {[1..len -> ExtraDimensionNames] : len \in 0..MaxExtraDims} :
        \A i, j \in DOMAIN d : d[i] = d[j] => i = j}

\* an entry of the configuration, cut at its "=": a name alone or a name and
\* a type ("entropy", "building=float", a dimension that no tile has)
ListedEntries ==
    {<<"entropy">>, <<"building", "float">>, <<"fantasy", "float">>, <<"all">>}

\* the extra_dims parameter of Cleaner.__init__: a string ("all", "", one
\* dimension) or a list of strings
ExtraDimsConfigs ==
    {[string |-> e] : e \in {<<"all">>, <<"">>, <<"entropy", "float">>}}
    \cup {[list |-> l] :
            l \in UNION {[1..len -> ListedEntries] : len \in 0..MaxExtraDims}}

\* isinstance(extra_dims, str)
isinstance_str(cfg) == DOMAIN cfg = {"string"}

\* Cleaner.__init__: self.extra_dims, the list of the entries
self_extra_dims(cfg) == IF isinstance_str(cfg) THEN <<cfg.string>> ELSE cfg.list

\* Cleaner.__init__: the keys of self.extra_dims_as_dict, the name of each
\* entry (the part before "=" of an entry of two parts, else the entry)
extra_dims_as_dict_keys(cfg) ==
    {self_extra_dims(cfg)[k][1] : k \in DOMAIN self_extra_dims(cfg)}

\* las_data.remove_extra_dims(names): the other extra dimensions stay, in
\* their order
remove_extra_dims(names, to_remove) ==
    SelectSeq(names, LAMBDA d : \A k \in DOMAIN to_remove : to_remove[k] # d)

\* las_data.remove_extra_dim(name)
remove_extra_dim(names, name) == remove_extra_dims(names, <<name>>)

\* remove_dimensions removing the first unwanted dimension only
remove_dimensions_first_only(cfg, names) ==
    LET dimension_to_remove ==
            SelectSeq(names, LAMBDA d : d \notin extra_dims_as_dict_keys(cfg))
    IN IF self_extra_dims(cfg) = << <<"all">> >> THEN names
       ELSE IF dimension_to_remove = <<>> THEN names
       ELSE remove_extra_dim(names, dimension_to_remove[1])

\* Cleaner.remove_dimensions: the extra dimensions of las_data afterwards
remove_dimensions(cfg, names) ==
    LET dimension_to_remove ==
            SelectSeq(names, LAMBDA d : d \notin extra_dims_as_dict_keys(cfg))
    IN IF self_extra_dims(cfg) = << <<"all">> >> THEN names
       ELSE IF dimension_to_remove = <<>> THEN names
       ELSE IF Len(dimension_to_remove) = 1
            THEN remove_extra_dim(names, dimension_to_remove[1])
       ELSE remove_extra_dims(names, dimension_to_remove)

InitClean ==
    /\ extra_dims \in ExtraDimsConfigs
    /\ extra_dimension_names \in ExtraDimensionLists
    /\ names_before = extra_dimension_names
    /\ cleaned = FALSE
    /\ PipelineIdle /\ OptimizerIdle /\ ApplicationIdle /\ RequestIdle /\ SplitIdle
    /\ EvaluationIdle

\* cleaner.remove_dimensions(las_data)
RemoveDimensions ==
    /\ ~cleaned
    /\ extra_dimension_names' = remove_dimensions(extra_dims, extra_dimension_names)
    /\ names_before' = extra_dimension_names
    /\ cleaned' = TRUE
    /\ UNCHANGED extra_dims
    /\ UNCHANGED <<pipeline_vars, optimizer_vars, application_vars, request_vars, split_vars,
                 evaluation_vars>>

NextClean == RemoveDimensions

SpecClean == InitClean /\ [][NextClean]_vars

---------------------------------------------------------------------------
(* Properties of Cleaner.remove_dimensions (SpecClean) *)

\* the configured entries and their names
ConfiguredEntries ==
    IF DOMAIN extra_dims = {"string"} THEN {extra_dims.string}
    ELSE {extra_dims.list[k] : k \in DOMAIN extra_dims.list}

ConfiguredNames == {e[1] : e \in ConfiguredEntries}

\* the configuration is "all" (alone)
ConfiguredAll ==
    IF DOMAIN extra_dims = {"string"} THEN extra_dims.string = <<"all">>
    ELSE extra_dims.list = << <<"all">> >>

\* the configuration is empty: the empty string or the empty list
ConfiguredEmpty ==
    IF DOMAIN extra_dims = {"string"} THEN extra_dims.string = <<"">>
    ELSE extra_dims.list = <<>>

\* s is t without some of its elements, in the order of t
RECURSIVE KeptInOrder(_, _, _)
KeptInOrder(s, t, keep) ==
    IF t = <<>> THEN s = <<>>
    ELSE IF Head(t) \in keep
         THEN s # <<>> /\ Head(s) = Head(t) /\ KeptInOrder(Tail(s), Tail(t), keep)
         ELSE KeptInOrder(s, Tail(t), keep)

\* C20: after remove_dimensions the extra dimensions of the tile are the
\* input extra dimensions whose name is configured, in their original order;
\* the configuration "all" keeps every extra dimension and an empty
\* configuration removes every extra dimension.
C20_KeepsConfiguredDimensions ==
    cleaned =>
        /\ ConfiguredAll => extra_dimension_names = names_before
        /\ ~ConfiguredAll =>
                KeptInOrder(extra_dimension_names, names_before, ConfiguredNames)
        /\ ConfiguredEmpty => extra_dimension_names = <<>>

\* a list of two entries, one with a type, in another order than the tile's:
\* the third dimension is removed and both are kept in the order of the tile
C20_Witness ==
    /\ cleaned
    /\ extra_dims = [list |-> << <<"building", "float">>, <<"entropy">> >>]
    /\ names_before = <<"entropy", "ground", "building">>
    /\ extra_dimension_names = <<"entropy", "building">>

---------------------------------------------------------------------------
(* BuildingValidationOptimizer: ground truth of a cluster and metrics *)

\* largest number of members of a labelled cluster
MaxLabels == 3
\* largest number of clusters of an evaluation
MaxClusters == 3

\* labels_from_20211001_building_val.codes: the labels of the reference
\* dataset that say building (19) and those that say it is none (20)
labels_from_20211001_building_val ==
    [codes |-> [true_positives |-> {19}, false_positives |-> {20}]]

\* the labels of the members of a cluster of candidates (a member is a
\* candidate of the optimiser or, in a broken tile, a point of another code)
LabelArrays ==
    UNION {[1..len -> labels_from_20211001_building_val.codes.true_positives
                        \cup labels_from_20211001_building_val.codes.false_positives
                        \cup {OtherCode}] : len \in 1..MaxLabels}

\* labels_from_20211001_building_val.min_frac: the two fractions, any levels
MinFracs == [true_positives : 0..Unit, false_positives : 0..Unit]

\* np.mean(flags) < frac; False when the mean is nan
MeanLt(cnt, len, frac) == len > 0 /\ cnt * Unit < frac * len

\* _define_MTS_ground_truth_flag testing the fraction of false positives
\* first
define_MTS_ground_truth_flag_fp_first(targets, mf) ==
    LET tp == Cardinality({k \in DOMAIN targets : targets[k] \in
                    labels_from_20211001_building_val.codes.true_positives})
    IN IF MeanLt(tp, Len(targets), mf.false_positives)
       THEN codes.final.not_building
       ELSE IF MeanGeq(tp, Len(targets), mf.true_positives)
       THEN codes.final.building
       ELSE codes.final.unsure

\* BuildingValidationOptimizer._define_MTS_ground_truth_flag, mf being
\* labels_from_20211001_building_val.min_frac
define_MTS_ground_truth_flag(targets, mf) ==
    LET \* np.isin(targets, true_positives), as the number of its ones
        tp == Cardinality({k \in DOMAIN targets : targets[k] \in
                    labels_from_20211001_building_val.codes.true_positives})
    IN IF MeanGeq(tp, Len(targets), mf.true_positives)
       THEN codes.final.building
       ELSE IF MeanLt(tp, Len(targets), mf.false_positives)
       THEN codes.final.not_building
       ELSE codes.final.unsure

InitGroundTruth ==
    /\ cluster_labels \in LabelArrays
    /\ min_frac \in MinFracs
    /\ ground_truth_flag = 0
    /\ mts_gt = <<>> /\ ia_decision = <<>> /\ evaluated = <<>>
    /\ PipelineIdle /\ OptimizerIdle /\ ApplicationIdle /\ RequestIdle
    /\ SplitIdle /\ CleanerIdle

\* infos.target = self._define_MTS_ground_truth_flag(dim_classification[pts_idx])
DefineGroundTruth ==
    /\ ground_truth_flag = 0
    /\ ground_truth_flag' = define_MTS_ground_truth_flag(cluster_labels, min_frac)
    /\ UNCHANGED <<cluster_labels, min_frac, mts_gt, ia_decision, evaluated>>
    /\ UNCHANGED <<pipeline_vars, optimizer_vars, application_vars, request_vars,
                   split_vars, cleaner_vars>>

NextGroundTruth == DefineGroundTruth

SpecGroundTruth == InitGroundTruth /\ [][NextGroundTruth]_vars

\* design.confusion_matrix_order, set by BuildingValidationOptimizer.setup
confusion_matrix_order ==
    <<codes.final.unsure, codes.final.not_building, codes.final.building>>

\* sklearn.metrics.confusion_matrix(y_true, y_pred, labels, normalize=None):
\* cell (r, c) counts the samples of true label labels[r] and of predicted
\* label labels[c]
confusion_matrix(y_true, y_pred, labels) ==
    [r \in DOMAIN labels |-> [c \in DOMAIN labels |->
        Cardinality({k \in DOMAIN y_true :
                        y_true[k] = labels[r] /\ y_pred[k] = labels[c]})]]

\* a float as a fraction <<numerator, denominator>>; nan is 0 / 0
NanFraction == <<0, 0>>

\* a cell of the matrix normalised by "all": the count over the sum of the
\* matrix, and 0 when the sum is 0 (nan_to_num)
normalized(count, total) == IF total = 0 THEN <<0, 1>> ELSE <<count, total>>

\* x + y for two cells of one normalised matrix
plus(x, y) == <<x[1] + y[1], x[2]>>

\* x / y for two sums of cells of one normalised matrix: 0 / 0 is nan
divide(x, y) == IF y[1] = 0 /\ x[1] = 0 THEN NanFraction ELSE <<x[1], y[1]>>

\* final_true_positives counting the confirmed buildings only
final_true_positives_confirmed(cm) == cm[3][3]

\* final_true_positives = cm[2, 0] + cm[2, 2] (Yu + Yc)
final_true_positives(cm) == plus(cm[3][1], cm[3][3])

\* BuildingValidationOptimizer._evaluate_decisions: the metrics that the
\* objective reads (proportion_of_automated_decisions, precision, recall)
evaluate_decisions(gt, decisions) ==
    LET counts == confusion_matrix(gt, decisions, confusion_matrix_order)
        total == SeqSum([r \in 1..3 |-> SeqSum(counts[r])])
        cm == [r \in 1..3 |-> [c \in 1..3 |-> normalized(counts[r][c], total)]]
        \* P_IA_u, P_IA_r, P_IA_c = cm.sum(axis=0)
        P_IA(c) == plus(plus(cm[1][c], cm[2][c]), cm[3][c])
        PAD == plus(P_IA(3), P_IA(2))
        \* QUALITY: the clusters of known ground truth
        non_ambiguous_idx ==
            SelectSeq([k \in DOMAIN gt |-> k], LAMBDA k : gt[k] # codes.final.unsure)
        known_decisions == [k \in DOMAIN non_ambiguous_idx |->
                                decisions[non_ambiguous_idx[k]]]
        known_gt == [k \in DOMAIN non_ambiguous_idx |-> gt[non_ambiguous_idx[k]]]
        q_counts == confusion_matrix(known_gt, known_decisions, confusion_matrix_order)
        q_total == SeqSum([r \in 1..3 |-> SeqSum(q_counts[r])])
        q_cm == [r \in 1..3 |-> [c \in 1..3 |-> normalized(q_counts[r][c], q_total)]]
        true_positives == final_true_positives(q_cm)
        final_false_positives == q_cm[2][3]
        positives == plus(plus(q_cm[3][1], q_cm[3][2]), q_cm[3][3])
    IN [groups_count |-> Len(decisions),
        proportion_of_automated_decisions |-> PAD,
        precision |-> divide(true_positives, plus(true_positives, final_false_positives)),
        recall |-> divide(true_positives, positives)]

\* the clusters of an evaluation: their ground truths and the decisions of
\* _make_group_decision, final codes all
InitEvaluate ==
    /\ \E len \in 1..MaxClusters :
        /\ mts_gt \in [1..len -> FinalCodes]
        /\ ia_decision \in [1..len -> FinalCodes]
    /\ evaluated = <<>>
    /\ cluster_labels = <<>> /\ min_frac = <<>> /\ ground_truth_flag = 0
    /\ PipelineIdle /\ OptimizerIdle /\ ApplicationIdle /\ RequestIdle
    /\ SplitIdle /\ CleanerIdle

\* metrics_dict = self._evaluate_decisions(mts_gt, decisions)
EvaluateDecisions ==
    /\ evaluated = <<>>
    /\ evaluated' = evaluate_decisions(mts_gt, ia_decision)
    /\ UNCHANGED <<cluster_labels, min_frac, ground_truth_flag, mts_gt, ia_decision>>
    /\ UNCHANGED <<pipeline_vars, optimizer_vars, application_vars, request_vars,
                   split_vars, cleaner_vars>>

NextEvaluate == EvaluateDecisions

SpecEvaluate == InitEvaluate /\ [][NextEvaluate]_vars

---------------------------------------------------------------------------
(* Properties of the ground truth (SpecGroundTruth) and of the metrics
   (SpecEvaluate) *)

\* the number of members whose label is a true-positive code
TruePositiveMembers ==
    Cardinality({k \in DOMAIN cluster_labels : cluster_labels[k] \in
                    labels_from_20211001_building_val.codes.true_positives})

\* tp_frac >= the minimal fraction of true positives
AtLeastTpMin ==
    TruePositiveMembers * Unit >= min_frac.true_positives * Len(cluster_labels)

\* tp_frac < the maximal fraction of false positives
BelowFpMax ==
    TruePositiveMembers * Unit < min_frac.false_positives * Len(cluster_labels)

\* C24: the ground truth of a cluster is building if tp_frac >= tau_tp_min,
\* otherwise not_building if tp_frac < tau_fp_max, otherwise unsure; it is
\* one of the three final codes, and building wins when both tests hold.
C24_GroundTruthFromTpFrac ==
    ground_truth_flag # 0 =>
        /\ ground_truth_flag \in FinalCodes
        /\ AtLeastTpMin => ground_truth_flag = codes.final.building
        /\ (~AtLeastTpMin /\ BelowFpMax)
                => ground_truth_flag = codes.final.not_building
        /\ (~AtLeastTpMin /\ ~BelowFpMax)
                => ground_truth_flag = codes.final.unsure

\* a cluster whose fraction of true positives passes both tests at once
C24_Witness ==
    /\ ground_truth_flag = codes.final.building
    /\ AtLeastTpMin /\ BelowFpMax
    /\ TruePositiveMembers = 1 /\ Len(cluster_labels) = 3

\* the number of clusters of a ground truth and of a decision
Cell(truth, decided) ==
    Cardinality({k \in DOMAIN mts_gt :
                    mts_gt[k] = truth /\ ia_decision[k] = decided})

Yu == Cell(codes.final.building, codes.final.unsure)
Yr == Cell(codes.final.building, codes.final.not_building)
Yc == Cell(codes.final.building, codes.final.building)
Nc == Cell(codes.final.not_building, codes.final.building)

\* the fraction x is a / b (nan when b = 0)
IsRatio(x, a, b) == IF b = 0 THEN x = NanFraction ELSE x[2] # 0 /\ x[1] * b = a * x[2]

\* C25: automation is the fraction of all clusters whose decision is refute
\* or confirm; among the clusters whose ground truth is not unsure,
\* precision is (Yu + Yc) / (Yu + Yc + Nc) and recall is
\* (Yu + Yc) / (Yu + Yr + Yc): an unsure decision on a true building counts
\* as a true positive.
C25_MetricsFromConfusionMatrix ==
    evaluated # <<>> =>
        /\ IsRatio(evaluated.proportion_of_automated_decisions,
                   Cardinality({k \in DOMAIN ia_decision : ia_decision[k] \in
                        {codes.final.not_building, codes.final.building}}),
                   Len(ia_decision))
        /\ IsRatio(evaluated.precision, Yu + Yc, Yu + Yc + Nc)
        /\ IsRatio(evaluated.recall, Yu + Yc, Yu + Yr + Yc)

\* a true building left unsure, a false building confirmed and a cluster of
\* unsure ground truth that is confirmed: precision 1/2, recall 1
C25_Witness ==
    /\ evaluated # <<>>
    /\ Yu = 1 /\ Yc = 0 /\ Yr = 0 /\ Nc = 1
    /\ Cell(codes.final.unsure, codes.final.building) = 1
    /\ IsRatio(evaluated.precision, 1, 2)
    /\ IsRatio(evaluated.recall, 1, 1)
    /\ IsRatio(evaluated.proportion_of_automated_decisions, 2, 3)

====
